---- MODULE Spec2Model ----
(***************************************************************************)
(* cdk-spa: what HostingConstruct and SPAStack build from their props.     *)
(*                                                                         *)
(* Spec        the Lambda@Edge request handler generated from `redirects`  *)
(*             and `rewrites`. Build time: createCloudFrontRedirects-      *)
(*             Rewrites turns every rule into a block of JavaScript source *)
(*             text (a regular expression and a replacement string spliced *)
(*             into single-quoted string literals). Request time: the      *)
(*             generated handler evaluates the blocks against the request  *)
(*             uri, then completes the uri with index.html.                *)
(* SpecFaults  the same handler on requests without a Host header and on   *)
(*             rules whose generated regular expression does not compile.  *)
(* SpecHeaders the Lambda@Edge response handler generated from `headers`.  *)
(* SpecCache   the default cache policy of the distribution.               *)
(* SpecStack   the SPAStack constructor's choice of deployment.            *)
(* SpecInterleaved  both handlers with several invocations in progress,    *)
(*             their parts interleaved.                                    *)
(*                                                                         *)
(* A string is a sequence of one-character strings.                        *)
(***************************************************************************)
EXTENDS Integers, Sequences, FiniteSets, TLC

VARIABLES
    props,          \* the props of the construct: [redirects, rewrites] in Spec and SpecFaults,
                    \* [headers] in SpecHeaders, the cache lists in SpecCache, SPAProps in SpecStack
    functionCode,   \* <<>> before synthesis, then <<code>>: the generated blocks or headersConfig
    request,        \* <<>> when no invocation is running, else <<r>>: what the event holds
    result          \* <<>> or <<r>>: what the handler passed on or returned, or what synthesis left

vars == <<props, functionCode, request, result>>

-----------------------------------------------------------------------------
(* Bounds *)

MaxRules == 2       \* rules per list in the multi-rule configurations
MaxUriLen == 4      \* characters of a request uri

-----------------------------------------------------------------------------
(* String helpers *)

Max(S) == CHOOSE x \in S : \A y \in S : y <= x

Min(S) == CHOOSE x \in S : \A y \in S : x <= y

Digits == <<"0", "1", "2", "3", "4", "5", "6", "7", "8", "9">>

IsDigit(c) == \E n \in 1..10 : Digits[n] = c

DigitValue(c) == (CHOOSE n \in 1..10 : Digits[n] = c) - 1

\* String(n) for an integer, as a template literal `${n}` prints it
RECURSIVE NumberToString(_)
NumberToString(n) ==
    IF n < 0 THEN <<"-">> \o NumberToString(0 - n)
    ELSE IF n < 10 THEN <<Digits[n + 1]>>
    ELSE NumberToString(n \div 10) \o <<Digits[(n % 10) + 1]>>

\* Array.prototype.indexOf, shifted: the 1-based index of the first x in arr, 0 when absent
\* (the code's `params.indexOf(paramName) + 1`)
indexOfPlus1(arr, x) ==
    IF \E i \in 1..Len(arr) : arr[i] = x
    THEN Min({i \in 1..Len(arr) : arr[i] = x})
    ELSE 0

\* String.prototype.endsWith / includes for a one-character needle
endsWith(s, c) == Len(s) > 0 /\ s[Len(s)] = c

includes(s, c) == \E i \in 1..Len(s) : s[i] = c

-----------------------------------------------------------------------------
(* Build time: the rule compiler of createCloudFrontRedirectsRewrites *)

\* the character class of escapeRegex: [.*+?^${}()|[\]\\]
RegexSpecials == {".", "*", "+", "?", "^", "$", "{", "}", "(", ")", "|", "[", "]", "\\"}

\* string.replace(/[.*+?^${}()|[\]\\]/g, '\\$&'): a backslash before every special character
RECURSIVE escapeRegex(_)
escapeRegex(string) ==
    IF string = <<>> THEN <<>>
    ELSE (IF Head(string) \in RegexSpecials
          THEN <<"\\", Head(string)>>
          ELSE <<Head(string)>>) \o escapeRegex(Tail(string))

\* /:[^/]+/ matches at i: a colon followed by at least one character that is not a slash
IsParamTokenAt(s, i) == s[i] = ":" /\ i < Len(s) /\ s[i + 1] # "/"

\* the index of the last character of the (greedy) match of [^/]+ that covers s[j]
RECURSIVE ParamTokenEnd(_, _)
ParamTokenEnd(s, j) ==
    IF j < Len(s) /\ s[j + 1] # "/" THEN ParamTokenEnd(s, j + 1) ELSE j

\* the `params` array after source.replace(/:[^/]+/g, ...): match.substring(1) of every match
RECURSIVE paramsFrom(_, _)
paramsFrom(s, i) ==
    IF i > Len(s) THEN <<>>
    ELSE IF IsParamTokenAt(s, i)
         THEN <<SubSeq(s, i + 1, ParamTokenEnd(s, i))>> \o paramsFrom(s, ParamTokenEnd(s, i) + 1)
         ELSE paramsFrom(s, i + 1)

\* the text a source parameter is replaced by
ParamGroup == <<"(", "[", "^", "/", "]", "+", ")">>

\* variant: a wildcard that stops at a slash
WildcardGroupOneSegment == <<"(", "[", "^", "/", "]", "*", ")">>

\* the text an escaped star is replaced by
WildcardGroup == <<"(", ".", "*", ")">>

\* .replace(/:[^/]+/g, (match) => { params.push(...); return '([^/]+)'; })
RECURSIVE replaceParams(_, _)
replaceParams(s, i) ==
    IF i > Len(s) THEN <<>>
    ELSE IF IsParamTokenAt(s, i)
         THEN ParamGroup \o replaceParams(s, ParamTokenEnd(s, i) + 1)
         ELSE <<s[i]>> \o replaceParams(s, i + 1)

\* .replace(/\\\*/g, '(.*)'): every backslash-star pair
RECURSIVE replaceEscapedStars(_, _)
replaceEscapedStars(s, i) ==
    IF i > Len(s) THEN <<>>
    ELSE IF s[i] = "\\" /\ i < Len(s) /\ s[i + 1] = "*"
         THEN WildcardGroup \o replaceEscapedStars(s, i + 2)
         ELSE <<s[i]>> \o replaceEscapedStars(s, i + 1)

\* const params: the names pushed while the source is compiled
params(rule) == paramsFrom(escapeRegex(rule.source), 1)

\* const source = this.escapeRegex(rule.source).replace(...).replace(...)
source(rule) == replaceEscapedStars(replaceParams(escapeRegex(rule.source), 1), 1)

\* variant: the index taken as it comes from indexOf, without the + 1
positionZeroBased(rule, paramName) == indexOfPlus1(paramsFrom(escapeRegex(rule.source), 1), paramName) - 1

\* the position a destination parameter resolves to: params.indexOf(paramName) + 1
position(rule, paramName) == indexOfPlus1(params(rule), paramName)

\* rule.destination.replace(/:[^/]+/g, (match) => `$${position}`)
RECURSIVE replaceDestinationParams(_, _, _)
replaceDestinationParams(rule, s, i) ==
    IF i > Len(s) THEN <<>>
    ELSE IF IsParamTokenAt(s, i)
         THEN <<"$">> \o NumberToString(position(rule, SubSeq(s, i + 1, ParamTokenEnd(s, i))))
                  \o replaceDestinationParams(rule, s, ParamTokenEnd(s, i) + 1)
         ELSE <<s[i]>> \o replaceDestinationParams(rule, s, i + 1)

\* the text a destination star is replaced by: '$1' (the regex /\*/ has no group, so the
\* replacement pattern $1 stays the two characters)
StarReplacement == <<"$", "1">>

\* .replace(/\*/g, '$1')
RECURSIVE replaceStars(_)
replaceStars(s) ==
    IF s = <<>> THEN <<>>
    ELSE (IF Head(s) = "*" THEN StarReplacement ELSE <<Head(s)>>) \o replaceStars(Tail(s))

\* const destination = rule.destination.replace(...).replace(/\*/g, '$1')
destination(rule) == replaceStars(replaceDestinationParams(rule, rule.destination, 1))

\* one generated block: the text spliced into new RegExp('^${source}$') and '${destination}'
ruleCode(rule) ==
    [regexp |-> <<"^">> \o source(rule) \o <<"$">>, replacement |-> destination(rule)]

\* redirects.map((rule) => ...)
redirectsCode(redirects) == [i \in 1..Len(redirects) |-> ruleCode(redirects[i])]

\* rewrites.map((rule) => ...)
rewritesCode(rewrites) == [i \in 1..Len(rewrites) |-> ruleCode(rewrites[i])]

-----------------------------------------------------------------------------
(* Request time: JavaScript semantics the generated code relies on *)

\* The value of a single-quoted string literal whose body is `text`: a backslash followed
\* by a character that starts no escape sequence denotes that character itself. (The
\* characters escapeRegex puts a backslash before start no escape sequence; letters that
\* do, quotes and line ends lie outside the alphabets used here.)
RECURSIVE StringLiteralValue(_)
StringLiteralValue(text) ==
    IF text = <<>> THEN <<>>
    ELSE IF Head(text) = "\\" /\ Len(text) >= 2
         THEN <<text[2]>> \o StringLiteralValue(SubSeq(text, 3, Len(text)))
         ELSE <<Head(text)>> \o StringLiteralValue(Tail(text))

\* the index of the first ")" at or after i
RECURSIVE GroupEnd(_, _)
GroupEnd(p, i) == IF p[i] = ")" THEN i ELSE GroupEnd(p, i + 1)

\* the index of the first "]" at or after i
RECURSIVE ClassEnd(_, _)
ClassEnd(p, i) == IF p[i] = "]" THEN i ELSE ClassEnd(p, i + 1)

\* String.prototype.split(separator): the pieces between the separators, empty ones kept
RECURSIVE split(_, _)
split(s, separator) ==
    LET at == {i \in 1..Len(s) : s[i] = separator}
    IN  IF at = {} THEN <<s>>
        ELSE <<SubSeq(s, 1, Min(at) - 1)>> \o split(SubSeq(s, Min(at) + 1, Len(s)), separator)

\* Array.prototype.join(separator)
RECURSIVE join(_, _)
join(parts, separator) ==
    IF parts = <<>> THEN <<>>
    ELSE IF Len(parts) = 1 THEN parts[1]
    ELSE parts[1] \o <<separator>> \o join(Tail(parts), separator)

\* new RegExp(p): the pattern as a sequence of terms. The patterns the two generators emit
\* over the alphabets used here hold ^, $, ., escaped characters, plain characters, the
\* class [^/] under *, capturing groups around one quantified atom and capturing groups of
\* alternatives. ("." stands for any character but a line end, and no uri here holds one.)
RECURSIVE RegExpTerms(_, _)
RegExpTerms(p, i) ==
    IF i > Len(p) THEN <<>>
    ELSE CASE p[i] = "^" -> <<[t |-> "bol"]>> \o RegExpTerms(p, i + 1)
           [] p[i] = "$" -> <<[t |-> "eol"]>> \o RegExpTerms(p, i + 1)
           [] p[i] = "." -> <<[t |-> "any"]>> \o RegExpTerms(p, i + 1)
           [] p[i] = "\\" -> <<[t |-> "char", c |-> p[i + 1]]>> \o RegExpTerms(p, i + 2)
           [] p[i] = "[" ->
                \* the class [^/] under *, outside any group
                LET close == ClassEnd(p, i)
                IN  <<[t |-> "star",
                       atom |-> CASE SubSeq(p, i, close) = <<"[", "^", "/", "]">>
                                       /\ close < Len(p) /\ p[close + 1] = "*" -> "notslash"]>>
                    \o RegExpTerms(p, close + 2)
           [] p[i] = "(" ->
                \* a capturing group: around one quantified atom ([^/] or . under + or *),
                \* or around alternatives separated by |
                LET inner == SubSeq(p, i + 1, GroupEnd(p, i) - 1)
                    atom == SubSeq(inner, 1, Len(inner) - 1)
                    quantifier == inner[Len(inner)]
                    quantified == /\ inner # <<>>
                                  /\ atom \in {<<"[", "^", "/", "]">>, <<".">>}
                                  /\ quantifier \in {"+", "*"}
                    alternatives == split(inner, "|")
                IN  (IF quantified
                     THEN <<[t |-> "group",
                             atom |-> CASE atom = <<"[", "^", "/", "]">> -> "notslash"
                                        [] atom = <<".">> -> "any",
                             min |-> CASE quantifier = "+" -> 1
                                       [] quantifier = "*" -> 0]>>
                     ELSE <<[t |-> "alt",
                             options |-> [k \in 1..Len(alternatives) |->
                                             RegExpTerms(alternatives[k], 1)]]>>)
                    \o RegExpTerms(p, GroupEnd(p, i) + 1)
           [] OTHER -> <<[t |-> "char", c |-> p[i]]>> \o RegExpTerms(p, i + 1)

RegExp(p) == RegExpTerms(p, 1)

NoMatch == [ok |-> FALSE, caps |-> <<>>, end |-> 0]

AtomAccepts(atom, c) == IF atom = "notslash" THEN c # "/" ELSE TRUE

\* the number of characters from si on that the group's atom accepts
RECURSIVE RunLength(_, _, _)
RunLength(atom, str, si) ==
    IF si <= Len(str) /\ AtomAccepts(atom, str[si]) THEN 1 + RunLength(atom, str, si + 1) ELSE 0

\* The backtracking matcher: terms ti.. against str from si. A quantified group is greedy:
\* it takes the longest run for which the rest of the pattern still matches.
RECURSIVE MatchFrom(_, _, _, _)
MatchFrom(terms, str, ti, si) ==
    IF ti > Len(terms) THEN [ok |-> TRUE, caps |-> <<>>, end |-> si - 1]
    ELSE LET tk == terms[ti] IN
         CASE tk.t = "bol" -> IF si = 1 THEN MatchFrom(terms, str, ti + 1, si) ELSE NoMatch
           [] tk.t = "eol" -> IF si = Len(str) + 1 THEN MatchFrom(terms, str, ti + 1, si) ELSE NoMatch
           [] tk.t = "char" -> IF si <= Len(str) /\ str[si] = tk.c
                               THEN MatchFrom(terms, str, ti + 1, si + 1) ELSE NoMatch
           [] tk.t = "any" -> IF si <= Len(str)
                              THEN MatchFrom(terms, str, ti + 1, si + 1) ELSE NoMatch
           [] tk.t = "group" ->
                LET ks == {k \in tk.min..RunLength(tk.atom, str, si) :
                              MatchFrom(terms, str, ti + 1, si + k).ok}
                IN  IF ks = {} THEN NoMatch
                    ELSE LET rest == MatchFrom(terms, str, ti + 1, si + Max(ks))
                         IN  [ok |-> TRUE,
                              caps |-> <<SubSeq(str, si, si + Max(ks) - 1)>> \o rest.caps,
                              end |-> rest.end]
           [] tk.t = "star" ->
                LET ks == {k \in 0..RunLength(tk.atom, str, si) :
                              MatchFrom(terms, str, ti + 1, si + k).ok}
                IN  IF ks = {} THEN NoMatch ELSE MatchFrom(terms, str, ti + 1, si + Max(ks))
           [] tk.t = "alt" ->
                \* the first alternative after which the rest of the pattern matches; an
                \* alternative here is a run of one-character terms, so it takes Len of it
                LET rest == SubSeq(terms, ti + 1, Len(terms))
                    fits == {k \in 1..Len(tk.options) :
                                MatchFrom(tk.options[k] \o rest, str, 1, si).ok}
                IN  IF fits = {} THEN NoMatch
                    ELSE LET option == tk.options[Min(fits)]
                             m == MatchFrom(option \o rest, str, 1, si)
                         IN  [ok |-> TRUE,
                              caps |-> <<SubSeq(str, si, si + Len(option) - 1)>> \o m.caps,
                              end |-> m.end]

\* RegExp.prototype.exec without the g flag: the match at the leftmost start that has one
RegExpExec(terms, str) ==
    LET starts == {s \in 1..(Len(str) + 1) : MatchFrom(terms, str, 1, s).ok}
    IN  IF starts = {} THEN NoMatch
        ELSE LET m == MatchFrom(terms, str, 1, Min(starts))
             IN  [ok |-> TRUE, caps |-> m.caps, start |-> Min(starts), end |-> m.end]

\* uri.match(regexp) as a condition
match(uri, terms) == RegExpExec(terms, uri).ok

\* GetSubstitution: $$ is a dollar, $& the match, $n and $nn a capture when the pattern has
\* that many groups; anything else is copied
RECURSIVE GetSubstitution(_, _, _)
GetSubstitution(replacement, matched, caps) ==
    IF replacement = <<>> THEN <<>>
    ELSE IF Head(replacement) = "$" /\ Len(replacement) >= 2
         THEN LET c == replacement[2]
                  two == Len(replacement) >= 3 /\ IsDigit(c) /\ IsDigit(replacement[3])
                  nn == IF two THEN 10 * DigitValue(c) + DigitValue(replacement[3]) ELSE 0
                  n == IF IsDigit(c) THEN DigitValue(c) ELSE 0
              IN  CASE c = "$" -> <<"$">> \o GetSubstitution(SubSeq(replacement, 3, Len(replacement)), matched, caps)
                    [] c = "&" -> matched \o GetSubstitution(SubSeq(replacement, 3, Len(replacement)), matched, caps)
                    [] two /\ nn >= 1 /\ nn <= Len(caps) ->
                         caps[nn] \o GetSubstitution(SubSeq(replacement, 4, Len(replacement)), matched, caps)
                    [] ~(two /\ nn >= 1 /\ nn <= Len(caps)) /\ n >= 1 /\ n <= Len(caps) ->
                         caps[n] \o GetSubstitution(SubSeq(replacement, 3, Len(replacement)), matched, caps)
                    [] OTHER -> <<"$">> \o GetSubstitution(Tail(replacement), matched, caps)
         ELSE <<Head(replacement)>> \o GetSubstitution(Tail(replacement), matched, caps)

\* uri.replace(regexp, replacement): the first match replaced, the rest of uri kept
replace(uri, terms, replacement) ==
    LET m == RegExpExec(terms, uri)
    IN  IF ~m.ok THEN uri
        ELSE SubSeq(uri, 1, m.start - 1)
             \o GetSubstitution(replacement, SubSeq(uri, m.start, m.end), m.caps)
             \o SubSeq(uri, m.end + 1, Len(uri))

-----------------------------------------------------------------------------
(* Request time: the generated handler *)

Https == <<"h", "t", "t", "p", "s", ":", "/", "/">>

IndexHtml == <<"i", "n", "d", "e", "x", ".", "h", "t", "m", "l">>

\* new RegExp('^${source}$') as the deployed function evaluates it: the block's text is the
\* body of a string literal, and the literal's value is the pattern
blockRegExp(block) == RegExp(StringLiteralValue(block.regexp))

\* '${destination}' as the deployed function evaluates it
blockReplacement(block) == StringLiteralValue(block.replacement)

\* variant: a Location without the host
redirectResponseNoHost(block, uri, host) ==
    [kind |-> "response",
     status |-> "301",
     statusDescription |-> "Moved Permanently",
     headers |-> [location |-> <<[key |-> "Location",
                                  value |-> Https \o replace(uri, RegExp(StringLiteralValue(block.regexp)),
                                                             StringLiteralValue(block.replacement))]>>],
     uri |-> <<>>]

\* the response object of a redirect block
redirectResponse(block, uri, host) ==
    [kind |-> "response",
     status |-> "301",
     statusDescription |-> "Moved Permanently",
     headers |-> [location |-> <<[key |-> "Location",
                                  value |-> Https \o host \o replace(uri, blockRegExp(block), blockReplacement(block))]>>],
     uri |-> <<>>]

\* variant: a matching block does not return, so a later matching block answers
RECURSIVE handleRedirectsLastWins(_, _, _, _)
handleRedirectsLastWins(blocks, i, uri, host) ==
    IF i > Len(blocks) THEN <<>>
    ELSE LET later == handleRedirectsLastWins(blocks, i + 1, uri, host)
         IN  IF later # <<>> THEN later
             ELSE IF match(uri, blockRegExp(blocks[i]))
                  THEN <<redirectResponse(blocks[i], uri, host)>>
                  ELSE <<>>

\* // Handle redirects: the blocks in order; a matching block calls back and returns
RECURSIVE handleRedirects(_, _, _, _)
handleRedirects(blocks, i, uri, host) ==
    IF i > Len(blocks) THEN <<>>
    ELSE IF match(uri, blockRegExp(blocks[i]))
         THEN <<redirectResponse(blocks[i], uri, host)>>
         ELSE handleRedirects(blocks, i + 1, uri, host)

\* variant: a block assigns its replacement text whether or not its pattern matches
RECURSIVE handleRewritesUnguarded(_, _, _, _)
handleRewritesUnguarded(blocks, i, uri, requestUri) ==
    IF i > Len(blocks) THEN requestUri
    ELSE handleRewritesUnguarded(blocks, i + 1, uri,
             IF match(uri, blockRegExp(blocks[i]))
             THEN replace(uri, blockRegExp(blocks[i]), blockReplacement(blocks[i]))
             ELSE blockReplacement(blocks[i]))

\* variant: a block matches and substitutes from request.uri, the output of the blocks
\* before it
RECURSIVE handleRewritesChained(_, _, _, _)
handleRewritesChained(blocks, i, uri, requestUri) ==
    IF i > Len(blocks) THEN requestUri
    ELSE handleRewritesChained(blocks, i + 1, uri,
             IF match(requestUri, blockRegExp(blocks[i]))
             THEN replace(requestUri, blockRegExp(blocks[i]), blockReplacement(blocks[i]))
             ELSE requestUri)

\* // Handle rewrites: the blocks in order; every matching block assigns request.uri from
\* the original uri, and falls through to the next block
RECURSIVE handleRewrites(_, _, _, _)
handleRewrites(blocks, i, uri, requestUri) ==
    IF i > Len(blocks) THEN requestUri
    ELSE handleRewrites(blocks, i + 1, uri,
             IF match(uri, blockRegExp(blocks[i]))
             THEN replace(uri, blockRegExp(blocks[i]), blockReplacement(blocks[i]))
             ELSE requestUri)

\* request.uri after the rewrite blocks
rewrittenUri(code, uri) == handleRewrites(code.rewritesCode, 1, uri, uri)

\* variant: the two checks in the other order
indexCompletionExtensionFirst(requestUri) ==
    IF ~includes(requestUri, ".") THEN requestUri \o <<"/">> \o IndexHtml
    ELSE IF endsWith(requestUri, "/") THEN requestUri \o IndexHtml
    ELSE requestUri

\* variant: the extension check left out, every path without a final slash is completed
indexCompletionNoExtensionCheck(requestUri) ==
    IF endsWith(requestUri, "/") THEN requestUri \o IndexHtml
    ELSE requestUri \o <<"/">> \o IndexHtml

\* variant: only the check for a missing file name
indexCompletionSlashOnly(requestUri) ==
    IF endsWith(requestUri, "/") THEN requestUri \o IndexHtml ELSE requestUri

\* // Check whether the URI is missing a file name / a file extension
indexCompletion(requestUri) ==
    IF endsWith(requestUri, "/") THEN requestUri \o IndexHtml
    ELSE IF ~includes(requestUri, ".") THEN requestUri \o <<"/">> \o IndexHtml
    ELSE requestUri

\* the request object passed to callback(null, request)
forwardedRequest(requestUri, host) ==
    [kind |-> "request",
     status |-> "",
     statusDescription |-> "",
     headers |-> [host |-> <<[key |-> "Host", value |-> host]>>],
     uri |-> requestUri]

\* variant: the rewrite blocks come first, and a request they rewrite is forwarded
handlerOutcomeRewritesFirst(code, uri, host) ==
    LET redirected == handleRedirects(code.redirectsCode, 1, uri, host)
    IN  IF rewrittenUri(code, uri) # uri \/ redirected = <<>>
        THEN forwardedRequest(indexCompletion(rewrittenUri(code, uri)), host)
        ELSE redirected[1]

\* exports.handler: what the handler passes to its callback for a request (uri, host)
handlerOutcome(code, uri, host) ==
    LET redirected == handleRedirects(code.redirectsCode, 1, uri, host)
    IN  IF redirected # <<>> THEN redirected[1]
        ELSE forwardedRequest(indexCompletion(rewrittenUri(code, uri)), host)

-----------------------------------------------------------------------------
(* Inputs *)

\* all sequences over S of length at most n
RECURSIVE SeqsUpTo(_, _)
SeqsUpTo(S, n) ==
    IF n = 0 THEN {<<>>}
    ELSE LET shorter == SeqsUpTo(S, n - 1)
         IN  shorter \cup {Append(q, x) : q \in shorter, x \in S}

\* a path pattern of one segment, or of two
Patterns(First, Second) ==
    {<<"/">> \o s : s \in First} \cup {<<"/">> \o s \o <<"/">> \o t : s \in First, t \in Second}

\* a literal source that holds a regex-special character
DottedSource == <<"/", "a", ".", "a">>

\* sources: a literal, a parameter or the wildcard, then (a second parameter name in the
\* second place) the same again
Sources ==
    Patterns({<<"a">>, <<":", "a">>, <<"*">>}, {<<"a">>, <<":", "b">>, <<"*">>}) \cup {DottedSource}

\* destinations: a literal, a reference to either parameter, or a star
Destinations ==
    Patterns({<<"b">>, <<":", "a">>, <<":", "b">>, <<"*">>}, {<<":", "a">>, <<":", "b">>, <<"*">>})

\* a rule whose parameter name holds a regex-special character
DottedParameterRule ==
    [source |-> <<"/", ":", "a", ".", "a">>, destination |-> <<"/", "b", "/", ":", "a", ".", "a">>]

Rules == [source : Sources, destination : Destinations] \cup {DottedParameterRule}

\* two rules that both match a one-segment uri, for the configurations with several
\* rules per list
OverlappingRules ==
    {[source |-> <<"/", ":", "a">>, destination |-> <<"/", "b", "/", ":", "a">>],
     [source |-> <<"/", "*">>, destination |-> <<"/", "b", ".", "a">>]}

Configurations ==
    {[redirects |-> <<r>>, rewrites |-> <<>>] : r \in Rules}
    \cup {[redirects |-> <<>>, rewrites |-> <<r>>] : r \in Rules}
    \cup [redirects : SeqsUpTo(OverlappingRules, MaxRules), rewrites : SeqsUpTo(OverlappingRules, MaxRules)]

UriAlphabet == {"/", "a", "."}

\* request uris: a slash followed by at most MaxUriLen - 1 characters
Uris == {<<"/">> \o s : s \in SeqsUpTo(UriAlphabet, MaxUriLen - 1)}

Hosts == {<<"g">>}

-----------------------------------------------------------------------------
(* The state machine *)

Init ==
    /\ props \in Configurations
    /\ functionCode = <<>>
    /\ request = <<>>
    /\ result = <<>>

\* synthesis: HostingConstruct generates the function code from the props
createCloudFrontRedirectsRewrites ==
    /\ functionCode = <<>>
    /\ functionCode' = <<[redirectsCode |-> redirectsCode(props.redirects),
                          rewritesCode |-> rewritesCode(props.rewrites)]>>
    /\ UNCHANGED <<props, request, result>>

\* one invocation of the deployed function for a viewer request
handler(uri, host) ==
    /\ functionCode # <<>>
    /\ request = <<>>
    /\ request' = <<[uri |-> uri, host |-> host]>>
    /\ result' = <<handlerOutcome(functionCode[1], uri, host)>>
    /\ UNCHANGED <<props, functionCode>>

\* the invocation is over: the callback's value went to CloudFront, nothing is kept
invocationEnds ==
    /\ request # <<>>
    /\ request' = <<>>
    /\ result' = <<>>
    /\ UNCHANGED <<props, functionCode>>

Next ==
    \/ createCloudFrontRedirectsRewrites
    \/ \E uri \in Uris, host \in Hosts : handler(uri, host)
    \/ invocationEnds

Spec == Init /\ [][Next]_vars

-----------------------------------------------------------------------------
(* What the rules are meant to denote (spec sections 3 and 4.1), for the claims *)

\* the tokens of a path pattern, left to right: ":name" up to the next "/", and "*"
RECURSIVE PatternTokens(_, _)
PatternTokens(pattern, i) ==
    IF i > Len(pattern) THEN <<>>
    ELSE IF IsParamTokenAt(pattern, i)
         THEN <<[kind |-> "param", name |-> SubSeq(pattern, i + 1, ParamTokenEnd(pattern, i))]>>
              \o PatternTokens(pattern, ParamTokenEnd(pattern, i) + 1)
         ELSE IF pattern[i] = "*"
              THEN <<[kind |-> "wildcard", name |-> <<>>]>> \o PatternTokens(pattern, i + 1)
              ELSE PatternTokens(pattern, i + 1)

Tokens(pattern) == PatternTokens(pattern, 1)

ParamSlots(pattern) == {i \in 1..Len(Tokens(pattern)) : Tokens(pattern)[i].kind = "param"}

WildcardSlots(pattern) == {i \in 1..Len(Tokens(pattern)) : Tokens(pattern)[i].kind = "wildcard"}

ParamNames(pattern) == {Tokens(pattern)[i].name : i \in ParamSlots(pattern)}

\* parameter names are unique within the pattern
UniqueNames(pattern) == Cardinality(ParamNames(pattern)) = Cardinality(ParamSlots(pattern))

PlainName(name) == \A i \in 1..Len(name) : name[i] \notin RegexSpecials

\* the destination references only names the source defines, and no more stars than the
\* source has wildcards
DestinationDefined(rule) ==
    /\ ParamNames(rule.destination) \subseteq ParamNames(rule.source)
    /\ Cardinality(WildcardSlots(rule.destination)) <= Cardinality(WildcardSlots(rule.source))

\* the capture slot of the source parameter called name
SlotOfName(pattern, name) == CHOOSE i \in ParamSlots(pattern) : Tokens(pattern)[i].name = name

\* the capture slot of the k-th wildcard of the source
SlotOfWildcard(pattern, k) ==
    CHOOSE i \in WildcardSlots(pattern) : Cardinality({j \in WildcardSlots(pattern) : j <= i}) = k

\* the destination with every ":name" replaced by the capture of the source parameter of
\* that name and the k-th "*" by the capture of the k-th source wildcard
RECURSIVE IntendedFrom(_, _, _, _)
IntendedFrom(rule, caps, i, k) ==
    LET d == rule.destination IN
    IF i > Len(d) THEN <<>>
    ELSE IF IsParamTokenAt(d, i)
         THEN caps[SlotOfName(rule.source, SubSeq(d, i + 1, ParamTokenEnd(d, i)))]
              \o IntendedFrom(rule, caps, ParamTokenEnd(d, i) + 1, k)
         ELSE IF d[i] = "*"
              THEN caps[SlotOfWildcard(rule.source, k + 1)] \o IntendedFrom(rule, caps, i + 1, k + 1)
              ELSE <<d[i]>> \o IntendedFrom(rule, caps, i + 1, k)

IntendedPath(rule, caps) == IntendedFrom(rule, caps, 1, 0)

\* the handler has run for the request
Handled == request # <<>> /\ result # <<>>

\* the configuration holds one rule, a redirect or a rewrite
SingleRule == Len(props.redirects) + Len(props.rewrites) = 1

TheRule == IF Len(props.redirects) = 1 THEN props.redirects[1] ELSE props.rewrites[1]

\* the generated block of the single rule
TheBlock ==
    IF Len(props.redirects) = 1 THEN functionCode[1].redirectsCode[1] ELSE functionCode[1].rewritesCode[1]

\* what a deployed block does with the request uri
BlockMatch(block) == match(request[1].uri, blockRegExp(block))

BlockCaptures(block) == RegExpExec(blockRegExp(block), request[1].uri).caps

BlockSubstitution(block) == replace(request[1].uri, blockRegExp(block), blockReplacement(block))

\* the outcome is a redirect to path
RedirectsTo(path) ==
    /\ result[1].kind = "response"
    /\ result[1].headers.location[1].value = Https \o request[1].host \o path

\* what the single rule's outcome shows of the substituted path: the Location of a
\* redirect, the forwarded uri of a rewrite
Yields(path) ==
    IF Len(props.redirects) = 1
    THEN RedirectsTo(path)
    ELSE result[1].kind = "request" /\ result[1].uri = indexCompletion(path)

MatchingRedirects ==
    {i \in 1..Len(functionCode[1].redirectsCode) : BlockMatch(functionCode[1].redirectsCode[i])}

MatchingRewrites ==
    {i \in 1..Len(functionCode[1].rewritesCode) : BlockMatch(functionCode[1].rewritesCode[i])}

-----------------------------------------------------------------------------
(* Claims *)

\* C1: redirects are first-match-wins in declaration order: when redirect rules match the
\* request path, the response's Location is the substitution of the earliest-declared
\* matching rule, whatever later rules match.
C1_FirstRedirectWins ==
    (Handled /\ MatchingRedirects # {}) =>
        RedirectsTo(BlockSubstitution(functionCode[1].redirectsCode[Min(MatchingRedirects)]))

\* C1 witness: two redirects with different substitutions match, and the first answered
C1_Witness ==
    /\ Handled
    /\ Cardinality(MatchingRedirects) = 2
    /\ BlockSubstitution(functionCode[1].redirectsCode[1]) # BlockSubstitution(functionCode[1].redirectsCode[2])
    /\ RedirectsTo(BlockSubstitution(functionCode[1].redirectsCode[1]))

\* C2 (as claimed): rewrites are first-match-wins: when no redirect matches and rewrite
\* rules match, the forwarded path is (the index completion of) the substitution of the
\* earliest-declared matching rewrite rule.
C2_FirstRewriteWins ==
    (Handled /\ MatchingRedirects = {} /\ MatchingRewrites # {}) =>
        /\ result[1].kind = "request"
        /\ result[1].uri = indexCompletion(BlockSubstitution(functionCode[1].rewritesCode[Min(MatchingRewrites)]))

\* C3 (as claimed): a source without ":" parameter and "*" wildcard matches, in the
\* deployed function, exactly the request path equal to it.
C3_LiteralMatchesExactly ==
    (Handled /\ SingleRule /\ Tokens(TheRule.source) = <<>>) =>
        ((IF Len(props.redirects) = 1 THEN result[1].kind = "response" ELSE BlockMatch(TheBlock))
            <=> request[1].uri = TheRule.source)

\* C4 (as claimed): with a source that mixes named parameters and a wildcard, every
\* ":name" of the destination becomes the capture of the same-named source parameter and
\* every "*" the capture of the source wildcard.
C4_MixedSubstitution ==
    (/\ Handled /\ SingleRule
     /\ ParamSlots(TheRule.source) # {} /\ Cardinality(WildcardSlots(TheRule.source)) = 1
     /\ UniqueNames(TheRule.source) /\ DestinationDefined(TheRule)
     /\ BlockMatch(TheBlock)) =>
        Yields(IntendedPath(TheRule, BlockCaptures(TheBlock)))

\* C5 (as claimed): with two or more source wildcards and as many destination stars, the
\* k-th "*" of the destination becomes the capture of the k-th source wildcard.
C5_WildcardsInOrder ==
    (/\ Handled /\ SingleRule
     /\ Cardinality(WildcardSlots(TheRule.source)) >= 2
     /\ Cardinality(WildcardSlots(TheRule.destination)) = Cardinality(WildcardSlots(TheRule.source))
     /\ DestinationDefined(TheRule)
     /\ BlockMatch(TheBlock)) =>
        Yields(IntendedPath(TheRule, BlockCaptures(TheBlock)))

\* C6 (as claimed): a rule whose destination references a parameter its source does not
\* define, or more "*" than the source has wildcards, fails the build: no function code
\* is produced for such a configuration.
C6_UndefinedReferenceFailsBuild ==
    functionCode # <<>> =>
        /\ \A i \in 1..Len(props.redirects) : DestinationDefined(props.redirects[i])
        /\ \A i \in 1..Len(props.rewrites) : DestinationDefined(props.rewrites[i])

\* C7: with a source of named parameters only (no wildcard; names unique and free of
\* regex-special characters, the other names being claim C30's case) and a destination
\* that references those names in any order, every ":name" of the destination becomes the
\* segment captured by the same-named source parameter.
C7_ParametersSubstituted ==
    (/\ Handled /\ SingleRule
     /\ ParamSlots(TheRule.source) # {} /\ WildcardSlots(TheRule.source) = {}
     /\ UniqueNames(TheRule.source) /\ \A n \in ParamNames(TheRule.source) : PlainName(n)
     /\ WildcardSlots(TheRule.destination) = {} /\ DestinationDefined(TheRule)
     /\ BlockMatch(TheBlock)) =>
        Yields(IntendedPath(TheRule, BlockCaptures(TheBlock)))

\* C7 witness: /:a/:b to /:b/:a redirects /a/. to /./a
C7_Witness ==
    /\ Handled
    /\ props.redirects = <<[source |-> <<"/", ":", "a", "/", ":", "b">>,
                            destination |-> <<"/", ":", "b", "/", ":", "a">>]>>
    /\ request[1].uri = <<"/", "a", "/", ".">>
    /\ RedirectsTo(<<"/", ".", "/", "a">>)

\* the literal text before and after the only wildcard of a pattern
BeforeWildcard(pattern) == SubSeq(pattern, 1, (CHOOSE i \in 1..Len(pattern) : pattern[i] = "*") - 1)

AfterWildcard(pattern) == SubSeq(pattern, (CHOOSE i \in 1..Len(pattern) : pattern[i] = "*") + 1, Len(pattern))

\* C8: with a source of one wildcard and no parameter, and a destination of one "*" and no
\* parameter, a request path made of the source's text with any remainder in the
\* wildcard's place (empty, or holding further slashes) yields the destination with its
\* "*" replaced by that whole remainder.
C8_WildcardTakesRemainder ==
    (/\ Handled /\ SingleRule
     /\ ParamSlots(TheRule.source) = {} /\ Cardinality(WildcardSlots(TheRule.source)) = 1
     /\ ParamSlots(TheRule.destination) = {} /\ Cardinality(WildcardSlots(TheRule.destination)) = 1) =>
        LET uri == request[1].uri
            pre == BeforeWildcard(TheRule.source)
            post == AfterWildcard(TheRule.source)
        IN  (/\ Len(uri) >= Len(pre) + Len(post)
             /\ SubSeq(uri, 1, Len(pre)) = pre
             /\ SubSeq(uri, Len(uri) - Len(post) + 1, Len(uri)) = post) =>
                Yields(BeforeWildcard(TheRule.destination)
                       \o SubSeq(uri, Len(pre) + 1, Len(uri) - Len(post))
                       \o AfterWildcard(TheRule.destination))

\* C8 witness: /* to /b/* redirects /a/a to /b/a/a, the remainder holding a slash
C8_Witness ==
    /\ Handled
    /\ props.redirects = <<[source |-> <<"/", "*">>, destination |-> <<"/", "b", "/", "*">>]>>
    /\ request[1].uri = <<"/", "a", "/", "a">>
    /\ RedirectsTo(<<"/", "b", "/", "a", "/", "a">>)

\* C9: when a redirect rule matches, the handler answers with status '301' and exactly one
\* header, Location, whose value is 'https://', the request's host and the substituted
\* destination path of a matching rule.
C9_RedirectResponse ==
    (Handled /\ MatchingRedirects # {}) =>
        /\ result[1].kind = "response"
        /\ result[1].status = "301"
        /\ DOMAIN result[1].headers = {"location"}
        /\ Len(result[1].headers.location) = 1
        /\ result[1].headers.location[1].key = "Location"
        /\ \E i \in MatchingRedirects :
              result[1].headers.location[1].value
                  = Https \o request[1].host \o BlockSubstitution(functionCode[1].redirectsCode[i])

\* C9 witness: /a to /b answers /a on host g with a 301 to https://g/b
C9_Witness ==
    /\ Handled
    /\ props.redirects = <<[source |-> <<"/", "a">>, destination |-> <<"/", "b">>]>>
    /\ request[1] = [uri |-> <<"/", "a">>, host |-> <<"g">>]
    /\ result[1].status = "301"
    /\ result[1].headers.location[1].value = <<"h", "t", "t", "p", "s", ":", "/", "/", "g", "/", "b">>

\* C10: the forwarded path is the path after the rewrite stage with 'index.html' appended
\* when it ends with '/', else with '/index.html' appended when it holds no '.', else
\* unchanged.
C10_DefaultNormalizer ==
    (Handled /\ result[1].kind = "request") =>
        LET path == rewrittenUri(functionCode[1], request[1].uri)
        IN  /\ path[Len(path)] = "/" => result[1].uri = path \o IndexHtml
            /\ (path[Len(path)] # "/" /\ \A i \in 1..Len(path) : path[i] # ".") =>
                  result[1].uri = path \o <<"/">> \o IndexHtml
            /\ (path[Len(path)] # "/" /\ \E i \in 1..Len(path) : path[i] = ".") =>
                  result[1].uri = path

\* C10 witness: with no rule at all, /a/ is forwarded as /a/index.html
C10_Witness ==
    /\ Handled
    /\ props = [redirects |-> <<>>, rewrites |-> <<>>]
    /\ request[1].uri = <<"/", "a", "/">>
    /\ result[1].uri = <<"/", "a", "/">> \o IndexHtml

\* C11: when no redirect answers and the rewrite the handler applies to the request (the
\* matching rule that assigns request.uri) substitutes to a path that holds a '.' and does
\* not end with '/', the forwarded path is that substituted destination exactly: nothing is
\* appended to a rewrite that targets a file.
C11_RewriteToFileUnchanged ==
    (Handled /\ MatchingRedirects = {} /\ MatchingRewrites # {}) =>
        LET path == BlockSubstitution(functionCode[1].rewritesCode[Max(MatchingRewrites)])
        IN  (path # <<>> /\ path[Len(path)] # "/" /\ \E i \in 1..Len(path) : path[i] = ".") =>
                result[1].kind = "request" /\ result[1].uri = path

\* C11 witness: the rewrite /* to /b.a forwards /a as /b.a
C11_Witness ==
    /\ Handled
    /\ props = [redirects |-> <<>>,
                rewrites |-> <<[source |-> <<"/", "*">>, destination |-> <<"/", "b", ".", "a">>]>>]
    /\ request[1].uri = <<"/", "a">>
    /\ result[1].kind = "request"
    /\ result[1].uri = <<"/", "b", ".", "a">>

-----------------------------------------------------------------------------
(* The response headers function: createCloudFrontHeaders                   *)
(*                                                                         *)
(* The handler is written inside a template literal of the construct, so   *)
(* the deployed JavaScript is the cooked text of that literal: a backslash *)
(* followed by a character stands for that character.                      *)

MaxHeaderRules == 2     \* header rules in the multi-rule configurations
MaxPathLen == 4         \* characters of a request uri seen by the response handler

\* the text a template literal yields for the raw text between its back-ticks (no
\* substitution and no letter escape occurs in the fragments used here)
RECURSIVE cooked(_)
cooked(raw) ==
    IF raw = <<>> THEN <<>>
    ELSE IF Head(raw) = "\\" /\ Len(raw) >= 2
         THEN <<raw[2]>> \o cooked(SubSeq(raw, 3, Len(raw)))
         ELSE <<Head(raw)>> \o cooked(Tail(raw))

\* JSON.stringify of a string, without the surrounding quotes: a quote and a backslash get
\* a backslash in front (control characters lie outside the alphabets used here)
RECURSIVE JSONStringify(_)
JSONStringify(string) ==
    IF string = <<>> THEN <<>>
    ELSE (IF Head(string) \in {"\"", "\\"} THEN <<"\\", Head(string)>> ELSE <<Head(string)>>)
         \o JSONStringify(Tail(string))

\* const headersConfig = ${JSON.stringify(headers)}: the text of the array literal
headersConfig(headers) ==
    [i \in 1..Len(headers) |->
        [path |-> JSONStringify(headers[i].path),
         name |-> JSONStringify(headers[i].name),
         value |-> JSONStringify(headers[i].value)]]

\* the rule object the deployed array literal denotes
headerOf(literal) ==
    [path |-> StringLiteralValue(literal.path),
     name |-> StringLiteralValue(literal.name),
     value |-> StringLiteralValue(literal.value)]

\* the index of the first "}" after i, or 0
BraceEnd(pattern, i) ==
    LET at == {j \in (i + 1)..Len(pattern) : pattern[j] = "}"}
    IN  IF at = {} THEN 0 ELSE Min(at)

\* variant: a brace group is left as it is written
replaceBracesKept(pattern, i) == SubSeq(pattern, i, Len(pattern))

\* pattern.replace(/{([^}]+)}/g, (match, group) => '(' + group.split(',').join('|') + ')')
RECURSIVE replaceBraces(_, _)
replaceBraces(pattern, i) ==
    IF i > Len(pattern) THEN <<>>
    ELSE IF pattern[i] = "{" /\ BraceEnd(pattern, i) > i + 1
         THEN <<"(">> \o join(split(SubSeq(pattern, i + 1, BraceEnd(pattern, i) - 1), ","), "|")
              \o <<")">> \o replaceBraces(pattern, BraceEnd(pattern, i) + 1)
         ELSE <<pattern[i]>> \o replaceBraces(pattern, i + 1)

\* regex.replace(/\\*/g, '[^/]*'): the cooked pattern is an escaped star, so every "*"
\* of the glob, one of two neighbours included, becomes the class of one segment
RECURSIVE replaceGlobStars(_)
replaceGlobStars(regex) ==
    IF regex = <<>> THEN <<>>
    ELSE (IF match(<<Head(regex)>>, RegExp(cooked(<<"\\", "\\", "*">>)))
          THEN <<"[", "^", "/", "]", "*">> ELSE <<Head(regex)>>)
         \o replaceGlobStars(Tail(regex))

\* part.replace(/[.+^$()|\[\]]/g, '\\$&') as deployed. The cooked pattern is
\* [.+^$()|[]] : a class that the first "]" closes, followed by a "]" to match as it is.
EscapePattern == cooked(<<"[", ".", "+", "^", "$", "(", ")", "|", "\\", "[", "\\", "]", "]">>)

EscapeClass == {EscapePattern[k] : k \in 2..(ClassEnd(EscapePattern, 1) - 1)}

EscapeTail == SubSeq(EscapePattern, ClassEnd(EscapePattern, 1) + 1, Len(EscapePattern))

\* the cooked replacement is the literal '\$&', whose value is the pattern $&
EscapeReplacement == StringLiteralValue(cooked(<<"\\", "\\", "$", "&">>))

RECURSIVE escapePart(_, _)
escapePart(part, i) ==
    IF i > Len(part) THEN <<>>
    ELSE LET stop == i + Len(EscapeTail)
         IN  IF part[i] \in EscapeClass /\ stop <= Len(part)
                /\ SubSeq(part, i + 1, stop) = EscapeTail
             THEN GetSubstitution(EscapeReplacement, SubSeq(part, i, stop), <<>>)
                  \o escapePart(part, stop + 1)
             ELSE <<part[i]>> \o escapePart(part, i + 1)

\* regex.split('/').map(part => part.replace(...)).join('/')
escapeParts(regex) ==
    LET parts == split(regex, "/")
    IN  join([k \in 1..Len(parts) |-> escapePart(parts[k], 1)], "/")

\* convertPathToRegex(pattern): braces, then stars, then the escaping of each part
convertPathToRegex(pattern) == escapeParts(replaceGlobStars(replaceBraces(pattern, 1)))

\* regex.test(uri) for new RegExp(convertPathToRegex(header.path)): a search with no anchor
test(regex, uri) == RegExpExec(regex, uri).ok

UpperCase == <<"A", "B", "C", "D", "E", "F", "G", "H", "I", "J", "K", "L", "M",
               "N", "O", "P", "Q", "R", "S", "T", "U", "V", "W", "X", "Y", "Z">>

LowerCase == <<"a", "b", "c", "d", "e", "f", "g", "h", "i", "j", "k", "l", "m",
               "n", "o", "p", "q", "r", "s", "t", "u", "v", "w", "x", "y", "z">>

\* variant: the name as it is written
toLowerCaseKept(name) == name

\* header.name.toLowerCase()
toLowerCase(name) ==
    [i \in 1..Len(name) |->
        IF \E k \in 1..26 : UpperCase[k] = name[i]
        THEN LowerCase[CHOOSE k \in 1..26 : UpperCase[k] = name[i]]
        ELSE name[i]]

\* variant: a header the response already carries is left as it is
setHeaderIfAbsent(headers, header) ==
    headers @@ (toLowerCase(header.name) :> <<[key |-> header.name, value |-> header.value]>>)

\* response.headers[headerName] = [{ key: header.name, value: headerValue }]
setHeader(headers, header) ==
    (toLowerCase(header.name) :> <<[key |-> header.name, value |-> header.value]>>) @@ headers

\* variant: the loop stops at the first rule whose path matches
RECURSIVE forEachFirstMatchOnly(_, _, _, _)
forEachFirstMatchOnly(config, i, uri, headers) ==
    IF i > Len(config) THEN headers
    ELSE IF test(RegExp(convertPathToRegex(headerOf(config[i]).path)), uri)
         THEN setHeader(headers, headerOf(config[i]))
         ELSE forEachFirstMatchOnly(config, i + 1, uri, headers)

\* headersConfig.forEach((header) => { ... }): every rule in order, each matching one
\* assigns its header
RECURSIVE forEach(_, _, _, _)
forEach(config, i, uri, headers) ==
    IF i > Len(config) THEN headers
    ELSE forEach(config, i + 1, uri,
             IF test(RegExp(convertPathToRegex(headerOf(config[i]).path)), uri)
             THEN setHeader(headers, headerOf(config[i]))
             ELSE headers)

\* variant: the returned response carries the rules' headers and no other
headersHandlerRulesOnly(code, uri, response) ==
    [response EXCEPT !.headers = forEach(code.headersConfig, 1, uri, <<>>)]

\* exports.handler = async (event) => { ...; return response; }
headersHandler(code, uri, response) ==
    [response EXCEPT !.headers = forEach(code.headersConfig, 1, uri, response.headers)]

-----------------------------------------------------------------------------
(* The response headers function: inputs and state machine *)

ReferrerPolicy == <<"R", "e", "f", "e", "r", "r", "e", "r", "-", "P", "o", "l", "i", "c", "y">>

AccessControlAllowOrigin == <<"A", "c", "c", "e", "s", "s", "-", "C", "o", "n", "t", "r", "o", "l", "-", "A", "l", "l", "o", "w", "-", "O", "r", "i", "g", "i", "n">>

\* headers the distribution's ResponseHeadersPolicy gives a response: the referrer policy
\* of securityHeadersBehavior and the allowed origin of corsBehavior, keyed as CloudFront
\* keys the headers of an event (lower case)
DefaultHeaders ==
    (toLowerCase(ReferrerPolicy) :>
        <<[key |-> ReferrerPolicy, value |-> <<"s", "t", "r", "i", "c", "t", "-", "o", "r", "i", "g", "i", "n", "-", "w", "h", "e", "n", "-", "c", "r", "o", "s", "s", "-", "o", "r", "i", "g", "i", "n">>]>>)
    @@ (toLowerCase(AccessControlAllowOrigin) :>
        <<[key |-> AccessControlAllowOrigin, value |-> <<"*">>]>>)

\* a header of the origin's own, under the lower-case key CloudFront gives it
OriginHeaders == (<<"x", "-", "a">> :> <<[key |-> <<"X", "-", "A">>, value |-> <<"0">>]>>)

\* the response of the event: as the origin gave it, without headers or with one of its
\* own, or with the policy's headers on it
Responses ==
    {[status |-> "200", headers |-> <<>>],
     [status |-> "200", headers |-> OriginHeaders],
     [status |-> "200", headers |-> DefaultHeaders]}

\* a glob with two stars between two named segments
DeepGlob == <<"/", "a", "/", "*", "*", "/", "a">>

\* a path that fills the two stars of DeepGlob with two segments
DeepPath == <<"/", "a", "/", "b", "/", "b", "/", "a">>

\* a path that holds /b/ after its first segment
NestedPath == <<"/", "a", "/", "b", "/">>

\* a glob with a brace group of two alternatives after a star and a dot
BraceGlob == <<"/", "*", ".", "{", "a", ",", "b", "}">>

\* a glob with a dot between two letters
DottedGlob == <<"/", "a", ".", "b">>

HeaderGlobs ==
    {<<"/", "*">>, <<"/", "*", "*">>, <<"/", "b", "/", "*">>, DeepGlob, BraceGlob, DottedGlob}

\* rules that match the same uris: one header named twice in different case, and another
\* header, which the policy sets
OverlappingHeaderRules ==
    {[path |-> <<"/", "*">>, name |-> <<"X", "-", "A">>, value |-> <<"1">>],
     [path |-> <<"/", "*", "*">>, name |-> <<"x", "-", "a">>, value |-> <<"2">>],
     [path |-> <<"/", "b", "/", "*">>, name |-> ReferrerPolicy, value |-> <<"n", "o", "-", "r", "e", "f", "e", "r", "r", "e", "r">>]}

HeaderConfigurations ==
    {[headers |-> <<[path |-> g, name |-> <<"X", "-", "A">>, value |-> <<"1">>]>>] : g \in HeaderGlobs}
    \cup {[headers |-> q] : q \in SeqsUpTo(OverlappingHeaderRules, MaxHeaderRules)}

HeaderUriAlphabet == {"/", "a", "b"}

\* paths of a file name with an extension: each alternative of BraceGlob, and another
FilePaths == {<<"/", "a", ".", x>> : x \in {"a", "b", "c"}}

HeaderUris ==
    {<<"/">> \o s : s \in SeqsUpTo(HeaderUriAlphabet, MaxPathLen - 1)}
    \cup {DeepPath, NestedPath} \cup FilePaths

InitHeaders ==
    /\ props \in HeaderConfigurations
    /\ functionCode = <<>>
    /\ request = <<>>
    /\ result = <<>>

\* synthesis: HostingConstruct generates the function code from props.headers
createCloudFrontHeaders ==
    /\ functionCode = <<>>
    /\ functionCode' = <<[headersConfig |-> headersConfig(props.headers)]>>
    /\ UNCHANGED <<props, request, result>>

\* one invocation of the deployed function for a viewer response
viewerResponse(uri, response) ==
    /\ functionCode # <<>>
    /\ request = <<>>
    /\ request' = <<[uri |-> uri, response |-> response]>>
    /\ result' = <<headersHandler(functionCode[1], uri, response)>>
    /\ UNCHANGED <<props, functionCode>>

NextHeaders ==
    \/ createCloudFrontHeaders
    \/ \E uri \in HeaderUris, response \in Responses : viewerResponse(uri, response)
    \/ invocationEnds

SpecHeaders == InitHeaders /\ [][NextHeaders]_vars

-----------------------------------------------------------------------------
(* Claims about the response headers function *)

\* the documented glob language: the whole path is matched, "**" stands for any
\* characters, "*" for characters other than "/", anything else for itself
RECURSIVE GlobMatches(_, _, _, _)
GlobMatches(glob, i, path, j) ==
    IF i > Len(glob) THEN j > Len(path)
    ELSE IF glob[i] = "*" /\ i < Len(glob) /\ glob[i + 1] = "*"
         THEN \E k \in j..(Len(path) + 1) : GlobMatches(glob, i + 2, path, k)
    ELSE IF glob[i] = "*"
         THEN \E k \in j..(j + RunLength("notslash", path, j)) : GlobMatches(glob, i + 1, path, k)
    ELSE j <= Len(path) /\ path[j] = glob[i] /\ GlobMatches(glob, i + 1, path, j + 1)

\* the rules the deployed function holds
DeployedHeaders == [i \in 1..Len(functionCode[1].headersConfig) |-> headerOf(functionCode[1].headersConfig[i])]

\* the deployed rules whose compiled path the handler finds in the request uri
MatchingHeaders ==
    {i \in 1..Len(DeployedHeaders) :
        test(RegExp(convertPathToRegex(DeployedHeaders[i].path)), request[1].uri)}

\* the returned response carries the rule's header with the rule's value
RuleApplied(rule) ==
    /\ toLowerCase(rule.name) \in DOMAIN result[1].headers
    /\ result[1].headers[toLowerCase(rule.name)] = <<[key |-> rule.name, value |-> rule.value]>>

\* the configuration is one header rule with this path
SingleHeaderRule(path) == Len(props.headers) = 1 /\ props.headers[1].path = path

\* C12 (as claimed): the glob "/*" is anchored to the whole path and its star stays within
\* one segment: a rule with path "/*" is applied to a request exactly when the uri is "/"
\* followed by characters other than "/".
C12_StarIsOneSegmentAnchored ==
    (Handled /\ SingleHeaderRule(<<"/", "*">>)) =>
        (RuleApplied(props.headers[1]) <=>
            (\A k \in 2..Len(request[1].uri) : request[1].uri[k] # "/"))

\* C13 (as claimed): "**" stands for any number of path segments: a rule whose path holds
\* "**" is applied to every request whose uri the documented glob language accepts.
C13_DoubleStarCrossesSegments ==
    (Handled /\ Len(props.headers) = 1
        /\ \E k \in 1..(Len(props.headers[1].path) - 1) :
              props.headers[1].path[k] = "*" /\ props.headers[1].path[k + 1] = "*") =>
        (GlobMatches(props.headers[1].path, 1, request[1].uri, 1) => RuleApplied(props.headers[1]))

\* C14 (as claimed): a rule with path "/b/*" is applied to a uri that is "/b/" followed by
\* one segment, and to no uri that does not begin with "/b/".
C14_PrefixedStar ==
    (Handled /\ SingleHeaderRule(<<"/", "b", "/", "*">>)) =>
        LET uri == request[1].uri
            begins == Len(uri) >= 3 /\ SubSeq(uri, 1, 3) = <<"/", "b", "/">>
        IN  /\ (begins /\ \A k \in 4..Len(uri) : uri[k] # "/") => RuleApplied(props.headers[1])
            /\ ~begins => ~RuleApplied(props.headers[1])

\* the last of the matching rules that names the header stored under key
LastNaming(key) == Max({i \in MatchingHeaders : toLowerCase(DeployedHeaders[i].name) = key})

\* C15: every rule whose path matches is applied, in declaration order: for each header
\* that matching rules name, the returned response carries the name and value of the last
\* declared of them, whatever other headers the matching rules before or after it name.
C15_AllMatchingRulesInOrder ==
    Handled =>
        \A i \in MatchingHeaders :
            LET key == toLowerCase(DeployedHeaders[i].name)
            IN  /\ key \in DOMAIN result[1].headers
                /\ result[1].headers[key] =
                       <<[key |-> DeployedHeaders[LastNaming(key)].name,
                          value |-> DeployedHeaders[LastNaming(key)].value]>>

\* C15 witness: X-A: 1 on /* then x-a: 2 on /** both match /a; the response carries the
\* second rule's name and value
C15_Witness ==
    /\ Handled
    /\ Len(props.headers) = 2
    /\ props.headers[1].name = <<"X", "-", "A">>
    /\ props.headers[2].name = <<"x", "-", "a">>
    /\ MatchingHeaders = {1, 2}
    /\ request[1].uri = <<"/", "a">>
    /\ result[1].headers[<<"x", "-", "a">>] = <<[key |-> <<"x", "-", "a">>, value |-> <<"2">>]>>

\* C16: a matching rule that names a header the response headers policy has set, and that
\* no later matching rule names again, replaces the policy's value: the returned response
\* carries the rule's value for that header.
C16_RuleOverridesDefault ==
    (Handled /\ request[1].response.headers = DefaultHeaders) =>
        \A i \in MatchingHeaders :
            LET key == toLowerCase(DeployedHeaders[i].name)
            IN  (key \in DOMAIN DefaultHeaders /\ LastNaming(key) = i) =>
                    /\ Len(result[1].headers[key]) = 1
                    /\ result[1].headers[key][1].value = DeployedHeaders[i].value

\* C16 witness: Referrer-Policy: no-referrer on /b/* replaces the policy's value on /b/a
C16_Witness ==
    /\ Handled
    /\ props.headers # <<>>
    /\ props.headers[1].name = ReferrerPolicy
    /\ request[1].uri = <<"/", "b", "/", "a">>
    /\ request[1].response.headers = DefaultHeaders
    /\ result[1].headers[toLowerCase(ReferrerPolicy)][1].value # DefaultHeaders[toLowerCase(ReferrerPolicy)][1].value
    /\ result[1].headers[toLowerCase(ReferrerPolicy)][1].value = props.headers[1].value

-----------------------------------------------------------------------------
(* The default cache policy: createDistribution, defaultCachePolicy         *)
(*                                                                         *)
(* An optional array property is <<>> when absent and <<items>> when given. *)

MaxParams == 2      \* names in a list of query parameters

\* props.list?.length as a condition: the property is given and holds an item
hasLength(list) == list # <<>> /\ Len(list[1]) > 0

\* CacheQueryStringBehavior.allowList(...items), and the same of headers and cookies
allowList(items) == [behavior |-> "allowList", items |-> items]

\* CacheQueryStringBehavior.denyList(...items)
denyList(items) == [behavior |-> "denyList", items |-> items]

\* CacheQueryStringBehavior.none(), and the same of headers and cookies
none == [behavior |-> "none", items |-> <<>>]

headerBehavior(p) == IF hasLength(p.allowHeaders) THEN allowList(p.allowHeaders[1]) ELSE none

cookieBehavior(p) == IF hasLength(p.allowCookies) THEN allowList(p.allowCookies[1]) ELSE none

\* variant: the deny-list is looked at first
queryStringBehaviorDenyFirst(p) ==
    IF hasLength(p.denyQueryParams) THEN denyList(p.denyQueryParams[1])
    ELSE IF hasLength(p.allowQueryParams) THEN allowList(p.allowQueryParams[1])
    ELSE none

queryStringBehavior(p) ==
    IF hasLength(p.allowQueryParams) THEN allowList(p.allowQueryParams[1])
    ELSE IF hasLength(p.denyQueryParams) THEN denyList(p.denyQueryParams[1])
    ELSE none

\* what the construction of the policy leaves: the policy, and the messages written while
\* it was built (no statement of the construction writes one)
cachePolicyOutcome(p) ==
    [headerBehavior |-> headerBehavior(p),
     cookieBehavior |-> cookieBehavior(p),
     queryStringBehavior |-> queryStringBehavior(p),
     diagnostics |-> <<>>,
     completed |-> TRUE]

QueryParams == {"lang", "utm_source"}

\* an optional list of query parameters: absent, empty, or up to MaxParams names
OptionalParams == {<<>>} \cup {<<q>> : q \in SeqsUpTo(QueryParams, MaxParams)}

CacheConfigurations ==
    [allowHeaders : {<<>>, <<<<>>>>, <<<<"Accept-Language">>>>},
     allowCookies : {<<>>, <<<<"session">>>>},
     allowQueryParams : OptionalParams,
     denyQueryParams : OptionalParams]

InitCache ==
    /\ props \in CacheConfigurations
    /\ functionCode = <<>>
    /\ request = <<>>
    /\ result = <<>>

\* synthesis: createDistribution builds the default cache policy from the props
defaultCachePolicy ==
    /\ result = <<>>
    /\ result' = <<cachePolicyOutcome(props)>>
    /\ UNCHANGED <<props, functionCode, request>>

NextCache == defaultCachePolicy

SpecCache == InitCache /\ [][NextCache]_vars

\* the policy has been built
PolicyBuilt == result # <<>>

\* the list is given and not empty
NonEmpty(list) == list # <<>> /\ list[1] # <<>>

\* C17: the query-string selector of the cache key is the allow-list of allowQueryParams
\* when that list is not empty, whatever denyQueryParams holds; else the deny-list of
\* denyQueryParams when that list is not empty; else 'none'. Absent and empty lists count
\* as not given.
C17_QueryStringSelector ==
    PolicyBuilt =>
        LET selector == result[1].queryStringBehavior
        IN  /\ NonEmpty(props.allowQueryParams) =>
                  selector = [behavior |-> "allowList", items |-> props.allowQueryParams[1]]
            /\ (~NonEmpty(props.allowQueryParams) /\ NonEmpty(props.denyQueryParams)) =>
                  selector = [behavior |-> "denyList", items |-> props.denyQueryParams[1]]
            /\ (~NonEmpty(props.allowQueryParams) /\ ~NonEmpty(props.denyQueryParams)) =>
                  selector.behavior = "none"

\* C17 witness: allowQueryParams ['lang'] with denyQueryParams ['utm_source'] gives the
\* allow-list of 'lang' alone
C17_Witness ==
    /\ PolicyBuilt
    /\ props.allowQueryParams = <<<<"lang">>>>
    /\ props.denyQueryParams = <<<<"utm_source">>>>
    /\ result[1].queryStringBehavior = [behavior |-> "allowList", items |-> <<"lang">>]

\* C18 (as claimed): when allowQueryParams and denyQueryParams are both given and not
\* empty, the build writes a diagnostic about the conflict and completes.
C18_ConflictDiagnostic ==
    (PolicyBuilt /\ NonEmpty(props.allowQueryParams) /\ NonEmpty(props.denyQueryParams)) =>
        result[1].diagnostics # <<>> /\ result[1].completed

-----------------------------------------------------------------------------
(* The request handler on events and rules that make a statement throw      *)
(*                                                                         *)
(* The host of an event is <<>> when the request has no Host header and    *)
(* <<value>> when it has one.                                              *)

\* new RegExp(p) throws a SyntaxError: over the alphabets used here, when a parenthesis
\* of the pattern has no partner (a character after a backslash is not looked at)
RECURSIVE Unbalanced(_, _, _)
Unbalanced(p, i, depth) ==
    IF i > Len(p) THEN depth # 0
    ELSE CASE p[i] = "\\" -> Unbalanced(p, i + 2, depth)
           [] p[i] = "(" -> Unbalanced(p, i + 1, depth + 1)
           [] p[i] = ")" -> IF depth = 0 THEN TRUE ELSE Unbalanced(p, i + 1, depth - 1)
           [] OTHER -> Unbalanced(p, i + 1, depth)

\* the block's new RegExp('^${source}$') throws
blockThrows(block) == Unbalanced(StringLiteralValue(block.regexp), 1, 0)

\* an exception that leaves the handler: callback is never called
thrown(error) ==
    [kind |-> "exception", status |-> error, statusDescription |-> "", headers |-> <<>>, uri |-> <<>>]

\* the blocks before the first one that throws
beforeThrow(blocks) ==
    LET bad == {i \in 1..Len(blocks) : blockThrows(blocks[i])}
    IN  IF bad = {} THEN blocks ELSE SubSeq(blocks, 1, Min(bad) - 1)

\* exports.handler with no statement taken for granted: the host is read before any
\* block, each block builds its RegExp when control reaches it, and nothing is in a try
handlerCompletion(code, uri, host) ==
    IF host = <<>> THEN thrown("TypeError")
    ELSE LET redirected == handleRedirects(beforeThrow(code.redirectsCode), 1, uri, host[1])
         IN  IF redirected # <<>> THEN redirected[1]
             ELSE IF \E i \in 1..Len(code.redirectsCode) : blockThrows(code.redirectsCode[i])
                  THEN thrown("SyntaxError")
             ELSE IF \E i \in 1..Len(code.rewritesCode) : blockThrows(code.rewritesCode[i])
                  THEN thrown("SyntaxError")
             ELSE forwardedRequest(indexCompletion(rewrittenUri(code, uri)), host[1])

\* a rule whose source holds a parenthesis, and one that is plain
FaultRules ==
    {[source |-> <<"/", "(">>, destination |-> <<"/", "b">>],
     [source |-> <<"/", "a">>, destination |-> <<"/", "b">>]}

FaultConfigurations ==
    [redirects : SeqsUpTo(FaultRules, MaxRules), rewrites : SeqsUpTo(FaultRules, 1)]

\* the Host header of an event: none, or one value
OptionalHosts == {<<>>} \cup {<<h>> : h \in Hosts}

InitFaults ==
    /\ props \in FaultConfigurations
    /\ functionCode = <<>>
    /\ request = <<>>
    /\ result = <<>>

\* one invocation of the deployed function for a viewer request that may lack its host
viewerRequest(uri, host) ==
    /\ functionCode # <<>>
    /\ request = <<>>
    /\ request' = <<[uri |-> uri, host |-> host]>>
    /\ result' = <<handlerCompletion(functionCode[1], uri, host)>>
    /\ UNCHANGED <<props, functionCode>>

NextFaults ==
    \/ createCloudFrontRedirectsRewrites
    \/ \E uri \in Uris, host \in OptionalHosts : viewerRequest(uri, host)
    \/ invocationEnds

SpecFaults == InitFaults /\ [][NextFaults]_vars

\* C19 (as claimed): no exception leaves the request handler: whatever the event and the
\* rules, the invocation ends with a request passed on or with a response, and when a
\* statement has thrown, the request passed on is the request as it came.
C19_FailsClosed ==
    Handled =>
        /\ result[1].kind \in {"request", "response"}
        /\ (request[1].host = <<>> /\ result[1].kind = "request") => result[1].uri = request[1].uri

-----------------------------------------------------------------------------
(* SPAStack: the constructor's choice between direct deployment and the     *)
(* pipeline. A property is TRUE when it is given with a truthy value;      *)
(* buildProps is <<>> when absent and <<record>> when given.               *)

BuildProps ==
    [runtime : BOOLEAN, runtime_version : BOOLEAN, installcmd : BOOLEAN,
     buildcmd : BOOLEAN, outputdir : BOOLEAN]

StackConfigurations ==
    [githubAccessTokenArn : BOOLEAN,
     buildSpecFilePath : BOOLEAN,
     sourceProps : [owner : BOOLEAN, repo : BOOLEAN, branchOrRef : BOOLEAN],
     buildProps : {<<>>} \cup {<<b>> : b \in BuildProps}]

\* throw new Error(message): the constructor is left, no stack is built
Error(message) == [kind |-> "Error", message |-> message, deployment |-> ""]

\* the constructor ran to its end with this construct for the deployment
constructed(deployment) == [kind |-> "stack", message |-> "", deployment |-> deployment]

\* !props.buildProps?.runtime || ... || !props.buildProps?.outputdir
buildPropsMissing(p) ==
    \/ p.buildProps = <<>>
    \/ ~p.buildProps[1].runtime
    \/ ~p.buildProps[1].runtime_version
    \/ ~p.buildProps[1].installcmd
    \/ ~p.buildProps[1].buildcmd
    \/ ~p.buildProps[1].outputdir

\* the constructor from the deployment choice on
SPAStackOutcome(p) ==
    IF ~p.githubAccessTokenArn THEN constructed("DeployConstruct")
    ELSE IF ~p.sourceProps.owner \/ ~p.sourceProps.repo \/ ~p.sourceProps.branchOrRef
         THEN Error("sourceProps owner, repo and branch/ref required.")
    ELSE IF buildPropsMissing(p)
         THEN Error("buildProps runtime, runtime_version, installcmd, buildcmd and outputdir required when pipeline is enabled.")
    ELSE constructed("PipelineConstruct")

InitStack ==
    /\ props \in StackConfigurations
    /\ functionCode = <<>>
    /\ request = <<>>
    /\ result = <<>>

\* new SPAStack(scope, id, props)
SPAStack ==
    /\ result = <<>>
    /\ result' = <<SPAStackOutcome(props)>>
    /\ UNCHANGED <<props, functionCode, request>>

NextStack == SPAStack

SpecStack == InitStack /\ [][NextStack]_vars

\* C20 (as claimed): in pipeline mode with complete sourceProps, a stack whose props give
\* buildSpecFilePath is constructed whether or not buildProps is given in full.
C20_BuildSpecNeedsNoBuildProps ==
    (result # <<>> /\ props.githubAccessTokenArn /\ props.buildSpecFilePath
        /\ props.sourceProps.owner /\ props.sourceProps.repo /\ props.sourceProps.branchOrRef) =>
        result[1].kind = "stack"

-----------------------------------------------------------------------------
(* Further claims about the request handler (Spec) *)

\* the Default URI Normalizer as the specification words it
Normalized(path) ==
    IF path[Len(path)] = "/" THEN path \o IndexHtml
    ELSE IF \A i \in 1..Len(path) : path[i] # "." THEN path \o <<"/">> \o IndexHtml
    ELSE path

\* C21: redirects are terminal and come before rewrites: when a redirect rule matches, the
\* one outcome of the invocation is the 301 of the first matching redirect, with a Location
\* that no rewrite rule and no index.html completion has touched, even when a rewrite rule
\* matches too; when no redirect rule matches, the one outcome is the forwarded request.
C21_RedirectsTerminal ==
    Handled =>
        /\ Len(result) = 1
        /\ MatchingRedirects # {} =>
              /\ result[1].kind = "response"
              /\ result[1].status = "301"
              /\ RedirectsTo(BlockSubstitution(functionCode[1].redirectsCode[Min(MatchingRedirects)]))
        /\ MatchingRedirects = {} => result[1].kind = "request"

\* C21 witness: the redirect /:a to /b/:a and the rewrite /* to /b.a both match /a; the
\* outcome is the redirect to https://g/b/a
C21_Witness ==
    /\ Handled
    /\ MatchingRedirects # {}
    /\ MatchingRewrites # {}
    /\ request[1].uri = <<"/", "a">>
    /\ result[1].kind = "response"
    /\ result[1].headers.location[1].value = Https \o <<"g", "/", "b", "/", "a">>

\* C22: when no redirect rule and no rewrite rule matches the request path, with lists that
\* hold rules or are empty, the forwarded path is the Default URI Normalizer applied to
\* the original request path.
C22_NoMatchLeavesPath ==
    (Handled /\ MatchingRedirects = {} /\ MatchingRewrites = {}) =>
        result[1].kind = "request" /\ result[1].uri = Normalized(request[1].uri)

\* C22 witness: the rewrite /a to /b does not match /a/, which is forwarded as
\* /a/index.html
C22_Witness ==
    /\ Handled
    /\ props = [redirects |-> <<>>,
                rewrites |-> <<[source |-> <<"/", "a">>, destination |-> <<"/", "b">>]>>]
    /\ request[1].uri = <<"/", "a", "/">>
    /\ MatchingRewrites = {}
    /\ result[1].uri = <<"/", "a", "/">> \o IndexHtml

\* C27: rewrite rules are not chained: every rewrite rule is matched against and substitutes
\* from the original request path, so the forwarded path, before the normalizer, is the
\* original path when no rewrite rule matches it and otherwise the substitution of one
\* matching rewrite rule applied to the original path.
C27_NoChaining ==
    (Handled /\ result[1].kind = "request") =>
        IF MatchingRewrites = {}
        THEN result[1].uri = Normalized(request[1].uri)
        ELSE \E i \in MatchingRewrites :
                 result[1].uri = Normalized(BlockSubstitution(functionCode[1].rewritesCode[i]))

\* C27 witness: with the rewrites /* to /b.a and then /:a to /b/:a, /a is forwarded as
\* /b/a/index.html: the second rule has read /a, not the first rule's /b.a
C27_Witness ==
    /\ Handled
    /\ props.redirects = <<>>
    /\ props.rewrites = <<[source |-> <<"/", "*">>, destination |-> <<"/", "b", ".", "a">>],
                          [source |-> <<"/", ":", "a">>, destination |-> <<"/", "b", "/", ":", "a">>]>>
    /\ request[1].uri = <<"/", "a">>
    /\ result[1].uri = <<"/", "b", "/", "a", "/">> \o IndexHtml

\* C28: every forwarded request has a path that does not end with '/' and holds a '.', so
\* the Default URI Normalizer applied to a forwarded path changes nothing.
C28_ForwardedPathIsFile ==
    (Handled /\ result[1].kind = "request") =>
        /\ result[1].uri # <<>>
        /\ result[1].uri[Len(result[1].uri)] # "/"
        /\ \E i \in 1..Len(result[1].uri) : result[1].uri[i] = "."
        /\ Normalized(result[1].uri) = result[1].uri

\* C28 witness: with no rule, /a is forwarded as /a/index.html
C28_Witness ==
    /\ Handled
    /\ props = [redirects |-> <<>>, rewrites |-> <<>>]
    /\ request[1].uri = <<"/", "a">>
    /\ result[1].kind = "request"
    /\ result[1].uri = <<"/", "a", "/">> \o IndexHtml

\* C30 (as claimed): a parameter whose name holds a regex-special character is resolved in
\* the destination to the capture it produced in the source: with a source of uniquely
\* named parameters, one of them so named, and a destination that references those names,
\* every ":name" of the destination becomes the segment captured by the same-named source
\* parameter.
C30_SpecialNameResolved ==
    (/\ Handled /\ SingleRule
     /\ ParamSlots(TheRule.source) # {} /\ WildcardSlots(TheRule.source) = {}
     /\ UniqueNames(TheRule.source) /\ \E n \in ParamNames(TheRule.source) : ~PlainName(n)
     /\ WildcardSlots(TheRule.destination) = {} /\ DestinationDefined(TheRule)
     /\ BlockMatch(TheBlock)) =>
        Yields(IntendedPath(TheRule, BlockCaptures(TheBlock)))

-----------------------------------------------------------------------------
(* Further claims about the response headers function (SpecHeaders) *)

\* the globs a glob with one brace group stands for: the group replaced by each of its
\* alternatives
Expansions(glob) ==
    LET open == Min({i \in 1..Len(glob) : glob[i] = "{"})
        close == BraceEnd(glob, open)
        alternatives == split(SubSeq(glob, open + 1, close - 1), ",")
    IN  {SubSeq(glob, 1, open - 1) \o alternatives[k] \o SubSeq(glob, close + 1, Len(glob)) :
            k \in 1..Len(alternatives)}

\* C23: a glob with a brace group matches a path exactly when the glob with the group
\* replaced by one of the listed alternatives matches it: the glob /*.{a,b} matches /a.a
\* and /a.b and does not match /a.c.
C23_BraceGroupAlternatives ==
    (Handled /\ SingleHeaderRule(BraceGlob)) =>
        /\ RuleApplied(props.headers[1]) <=>
              \E glob \in Expansions(BraceGlob) :
                  test(RegExp(convertPathToRegex(glob)), request[1].uri)
        /\ request[1].uri \in {<<"/", "a", ".", "a">>, <<"/", "a", ".", "b">>} =>
              RuleApplied(props.headers[1])
        /\ request[1].uri = <<"/", "a", ".", "c">> => ~RuleApplied(props.headers[1])

\* C23 witness: the rule on /*.{a,b} is applied to /a.b
C23_Witness ==
    /\ Handled
    /\ SingleHeaderRule(BraceGlob)
    /\ request[1].uri = <<"/", "a", ".", "b">>
    /\ RuleApplied(props.headers[1])

\* C24 (as claimed): a '.' in a glob matches only a '.': a rule with path /a.b is applied
\* only to a uri that holds the text /a.b.
C24_DotIsLiteral ==
    (Handled /\ SingleHeaderRule(DottedGlob)) =>
        (RuleApplied(props.headers[1]) =>
            \E k \in 1..Len(request[1].uri) :
                /\ k + Len(DottedGlob) - 1 <= Len(request[1].uri)
                /\ SubSeq(request[1].uri, k, k + Len(DottedGlob) - 1) = DottedGlob)

\* a name without capital letters
NoUpperCase(name) == \A i \in 1..Len(name) : \A k \in 1..26 : name[i] # UpperCase[k]

\* two names that differ in the case of their letters at most
SameButCase(a, b) ==
    /\ Len(a) = Len(b)
    /\ \A i \in 1..Len(a) :
          \/ a[i] = b[i]
          \/ \E k \in 1..26 : {a[i], b[i]} = {UpperCase[k], LowerCase[k]}

\* C25: headers are set under lower-cased names: every matching rule's header is stored
\* under the lower-cased name and under no other spelling, and every key of the returned
\* response is lower case and holds one entry, so rules naming one header in different case
\* and a header the response already carried in another case end as one entry.
C25_LowerCasedNames ==
    Handled =>
        /\ \A k \in DOMAIN result[1].headers :
              NoUpperCase(k) /\ Len(result[1].headers[k]) = 1
        /\ \A i \in MatchingHeaders :
              \E k \in DOMAIN result[1].headers : SameButCase(k, DeployedHeaders[i].name)

\* C25 witness: the origin's X-A and the rules X-A and x-a end as the one entry x-a
C25_Witness ==
    /\ Handled
    /\ request[1].response.headers = OriginHeaders
    /\ Len(props.headers) = 2
    /\ props.headers[1].name = <<"X", "-", "A">>
    /\ props.headers[2].name = <<"x", "-", "a">>
    /\ MatchingHeaders = {1, 2}
    /\ DOMAIN result[1].headers = {<<"x", "-", "a">>}
    /\ result[1].headers[<<"x", "-", "a">>] = <<[key |-> <<"x", "-", "a">>, value |-> <<"2">>]>>

\* C29: the handler changes only the headers that matching rules name: the status and every
\* header no matching rule names are returned as they came, no other header appears, and
\* with no matching rule the whole response is returned as it came.
C29_OnlyNamedHeadersChange ==
    Handled =>
        LET named == {toLowerCase(DeployedHeaders[i].name) : i \in MatchingHeaders}
            before == request[1].response
        IN  /\ result[1].status = before.status
            /\ \A k \in (DOMAIN before.headers) \ named :
                  k \in DOMAIN result[1].headers /\ result[1].headers[k] = before.headers[k]
            /\ DOMAIN result[1].headers \subseteq (DOMAIN before.headers) \cup named
            /\ named = {} => result[1] = before

\* C29 witness: the rule X-A is applied to /a and the policy's two headers are returned
\* as they came
C29_Witness ==
    /\ Handled
    /\ Len(props.headers) = 1
    /\ props.headers[1].name = <<"X", "-", "A">>
    /\ request[1].uri = <<"/", "a">>
    /\ request[1].response.headers = DefaultHeaders
    /\ RuleApplied(props.headers[1])
    /\ \A k \in DOMAIN DefaultHeaders : result[1].headers[k] = DefaultHeaders[k]

-----------------------------------------------------------------------------
(* The two deployed functions with several invocations in progress          *)
(*                                                                         *)
(* request and result are functions of the invocation slots 1..MaxInFlight: *)
(* request[s] is <<>> or <<invocation>>, with the event and the handler's   *)
(* local variables, and result[s] is <<>> or <<outcome>>.                   *)

MaxInFlight == 2    \* invocations in progress at one time

Slots == 1..MaxInFlight

\* variant: `uri` as a variable of the module, which the invocation that began in the
\* lowest slot has set
uriModuleLevel(invocations, slot) ==
    invocations[Min({s \in Slots : invocations[s] # <<>>})][1].uri

\* var uri = request.uri / const uri = request.uri: a variable of the invocation
uriOf(invocations, slot) == invocations[slot][1].uri

\* all the code createDistribution deploys for the props
deployedCode(p) ==
    [redirectsCode |-> redirectsCode(p.redirects),
     rewritesCode |-> rewritesCode(p.rewrites),
     headersConfig |-> headersConfig(p.headers)]

NoResponse == [status |-> "", headers |-> <<>>]

\* the invocation of the request handler as it begins: the event read into the locals
requestInvocation(uri, host) ==
    [trigger |-> "viewer-request", uri |-> uri, host |-> host, response |-> NoResponse,
     pc |-> "redirects", index |-> 0, requestUri |-> uri, headers |-> <<>>]

\* the invocation of the response handler as it begins
responseInvocation(uri, response) ==
    [trigger |-> "viewer-response", uri |-> uri, host |-> <<>>, response |-> response,
     pc |-> "forEach", index |-> 1, requestUri |-> <<>>, headers |-> response.headers]

InterleavedConfigurations ==
    {[redirects |-> <<[source |-> <<"/", "a">>, destination |-> <<"/", "b">>]>>,
      rewrites |-> <<[source |-> <<"/", "*">>, destination |-> <<"/", "b", ".", "a">>],
                     [source |-> <<"/", ":", "a">>, destination |-> <<"/", "b", "/", ":", "a">>]>>,
      headers |-> <<[path |-> <<"/", "b", "/", "*">>, name |-> <<"X", "-", "A">>, value |-> <<"1">>],
                    [path |-> <<"/", "*">>, name |-> <<"x", "-", "a">>, value |-> <<"2">>]>>],
     [redirects |-> <<>>, rewrites |-> <<>>, headers |-> <<>>]}

InterleavedUris == {<<"/", "a">>, <<"/", "b">>, <<"/", "b", "/">>}

InitInterleaved ==
    /\ props \in InterleavedConfigurations
    /\ functionCode = <<>>
    /\ request = [s \in Slots |-> <<>>]
    /\ result = [s \in Slots |-> <<>>]

\* synthesis: both functions are generated from the props
createDistribution ==
    /\ functionCode = <<>>
    /\ functionCode' = <<deployedCode(props)>>
    /\ UNCHANGED <<props, request, result>>

\* CloudFront invokes the request handler in a free slot
invokeRequestHandler(slot, uri, host) ==
    /\ functionCode # <<>>
    /\ request[slot] = <<>>
    /\ request' = [request EXCEPT ![slot] = <<requestInvocation(uri, host)>>]
    /\ UNCHANGED <<props, functionCode, result>>

\* CloudFront invokes the response handler in a free slot
invokeResponseHandler(slot, uri, response) ==
    /\ functionCode # <<>>
    /\ request[slot] = <<>>
    /\ request' = [request EXCEPT ![slot] = <<responseInvocation(uri, response)>>]
    /\ UNCHANGED <<props, functionCode, result>>

\* the request handler of a slot runs its next part: the redirect blocks, the rewrite
\* blocks, or the completion and the callback
requestHandlerStep(slot) ==
    /\ request[slot] # <<>>
    /\ result[slot] = <<>>
    /\ request[slot][1].trigger = "viewer-request"
    /\ LET inv == request[slot][1]
           code == functionCode[1]
           uri == uriOf(request, slot)
       IN  CASE inv.pc = "redirects" ->
                  LET redirected == handleRedirects(code.redirectsCode, 1, uri, inv.host)
                  IN  IF redirected # <<>>
                      THEN /\ result' = [result EXCEPT ![slot] = redirected]
                           /\ UNCHANGED request
                      ELSE /\ request' = [request EXCEPT ![slot] = <<[inv EXCEPT !.pc = "rewrites"]>>]
                           /\ UNCHANGED result
             [] inv.pc = "rewrites" ->
                  /\ request' = [request EXCEPT ![slot] =
                        <<[inv EXCEPT !.pc = "completion",
                                      !.requestUri = handleRewrites(code.rewritesCode, 1, uri, inv.requestUri)]>>]
                  /\ UNCHANGED result
             [] inv.pc = "completion" ->
                  /\ result' = [result EXCEPT ![slot] =
                        <<forwardedRequest(indexCompletion(inv.requestUri), inv.host)>>]
                  /\ UNCHANGED request
    /\ UNCHANGED <<props, functionCode>>

\* the response handler of a slot runs its next part: one turn of forEach, or the return
responseHandlerStep(slot) ==
    /\ request[slot] # <<>>
    /\ result[slot] = <<>>
    /\ request[slot][1].trigger = "viewer-response"
    /\ LET inv == request[slot][1]
           config == functionCode[1].headersConfig
       IN  IF inv.index <= Len(config)
           THEN /\ request' = [request EXCEPT ![slot] =
                      <<[inv EXCEPT !.index = inv.index + 1,
                                    !.headers =
                                        IF test(RegExp(convertPathToRegex(headerOf(config[inv.index]).path)),
                                                uriOf(request, slot))
                                        THEN setHeader(inv.headers, headerOf(config[inv.index]))
                                        ELSE inv.headers]>>]
                /\ UNCHANGED result
           ELSE /\ result' = [result EXCEPT ![slot] = <<[inv.response EXCEPT !.headers = inv.headers]>>]
                /\ UNCHANGED request
    /\ UNCHANGED <<props, functionCode>>

\* the invocation of a slot is over: its outcome went to CloudFront, its locals are gone
invocationReturns(slot) ==
    /\ result[slot] # <<>>
    /\ request' = [request EXCEPT ![slot] = <<>>]
    /\ result' = [result EXCEPT ![slot] = <<>>]
    /\ UNCHANGED <<props, functionCode>>

NextInterleaved ==
    \/ createDistribution
    \/ \E slot \in Slots, uri \in InterleavedUris, host \in Hosts : invokeRequestHandler(slot, uri, host)
    \/ \E slot \in Slots, uri \in InterleavedUris : invokeResponseHandler(slot, uri, [status |-> "200", headers |-> OriginHeaders])
    \/ \E slot \in Slots : requestHandlerStep(slot)
    \/ \E slot \in Slots : responseHandlerStep(slot)
    \/ \E slot \in Slots : invocationReturns(slot)

SpecInterleaved == InitInterleaved /\ [][NextInterleaved]_vars

\* C26: request handling is stateless: whatever invocations of the two handlers are in
\* progress and however their parts interleave, the deployed rule data is what synthesis
\* made of the props, and the outcome of every invocation is the outcome of that handler run
\* alone on the invocation's own event.
C26_Stateless ==
    /\ functionCode # <<>> => functionCode[1] = deployedCode(props)
    /\ \A slot \in Slots :
          result[slot] # <<>> =>
              LET inv == request[slot][1]
              IN  result[slot][1] =
                      IF inv.trigger = "viewer-request"
                      THEN handlerOutcome(functionCode[1], inv.uri, inv.host)
                      ELSE headersHandler(functionCode[1], inv.uri, inv.response)

\* C26 witness: a request handler has forwarded /b as /b/b/index.html while a response
\* handler for /b/ is between two turns of its loop
C26_Witness ==
    /\ request[1] # <<>> /\ request[2] # <<>>
    /\ request[1][1].trigger = "viewer-response"
    /\ request[1][1].uri = <<"/", "b", "/">>
    /\ request[1][1].index = 2
    /\ request[2][1].trigger = "viewer-request"
    /\ request[2][1].uri = <<"/", "b">>
    /\ result[2] # <<>>
    /\ result[2][1].kind = "request"
    /\ result[2][1].uri = <<"/", "b", "/", "b", "/">> \o IndexHtml

====
